---- MODULE Spec2Model ----
(***************************************************************************)
(* Model of the minimal-python-app web service: main.py (entry point),     *)
(* webtest.py (WebTest, six routes) and k8s_utils.py (K8sClient).          *)
(*                                                                         *)
(* Environment variable names are sequences of one-character strings, so   *)
(* that str.lower() and the substring test `word in key` are computed and  *)
(* not assumed.  Dictionaries are records / functions.                     *)
(***************************************************************************)
EXTENDS Integers, Sequences, FiniteSets, TLC

(* ------------------------------ bounds -------------------------------- *)

\* requests (or direct client calls) that may be in progress at once
MaxInFlight == 2

\* largest number of variables in the process environment of SpecEnv
MaxEnvVars == 2

(* ------------------------ strings as sequences ------------------------ *)

UpperCase == <<"A","B","C","D","E","F","G","H","I","J","K","L","M",
               "N","O","P","Q","R","S","T","U","V","W","X","Y","Z">>

LowerCase == <<"a","b","c","d","e","f","g","h","i","j","k","l","m",
               "n","o","p","q","r","s","t","u","v","w","x","y","z">>

\* one character of str.lower()
lower_char(c) ==
    IF \E i \in DOMAIN UpperCase : UpperCase[i] = c
    THEN LowerCase[CHOOSE i \in DOMAIN UpperCase : UpperCase[i] = c]
    ELSE c

\* key.lower()
lower(s) == [i \in 1..Len(s) |-> lower_char(s[i])]

\* Python's `word in s` on strings: word occurs as a contiguous substring
Contains(word, s) ==
    \E i \in 1..(Len(s) - Len(word) + 1) : SubSeq(s, i, i + Len(word) - 1) = word

(* --------------------- environment variable names --------------------- *)

POD_NAME      == <<"P","O","D","_","N","A","M","E">>
POD_NAMESPACE == <<"P","O","D","_","N","A","M","E","S","P","A","C","E">>
APP_NAME      == <<"A","P","P","_","N","A","M","E">>
ENVIRONMENT   == <<"E","N","V","I","R","O","N","M","E","N","T">>

\* the tuple of names webtest.py's info() drops (compared with key.lower())
InfoExcluded ==
    { <<"p","a","t","h">>, <<"s","e","c","r","e","t">>, <<"t","o","k","e","n">>,
      <<"p","a","s","s","w","o","r","d">>, <<"k","e","y">>, <<"c","e","r","t">> }

\* the list of words main.py's startup log drops (tested with `in key.lower()`)
LogSensitive ==
    { <<"s","e","c","r","e","t">>, <<"p","a","s","s","w","o","r","d">>,
      <<"t","o","k","e","n">>, <<"k","e","y">>, <<"c","e","r","t">> }

\* the names the environments of SpecEnv are drawn from
EnvNames ==
    { <<"P","A","T","H">>, <<"P","a","t","h">>, <<"s","e","c","r","e","t">>,
      <<"T","o","k","e","n">>, <<"P","A","S","S","W","O","R","D">>,
      <<"K","E","Y">>, <<"C","e","r","t">>,
      <<"M","Y","_","S","E","C","R","E","T","_","X">>,
      <<"A","P","I","_","K","E","Y">>, <<"H","O","M","E">>,
      APP_NAME }

\* the values a variable of SpecEnv may hold
EnvValues == {"1", "hunter2"}

\* every environment: a function from at most n of the names to values
Environments(names, values, n) ==
    UNION { [S -> values] : S \in { T \in SUBSET names : Cardinality(T) <= n } }

\* the values each variable the service reads may hold in Spec
ServiceValues(name) ==
    IF name = POD_NAME THEN {"unknown", "web-0"}
    ELSE IF name = POD_NAMESPACE THEN {"prod"}
    ELSE IF name = APP_NAME THEN {"shop"}
    ELSE {"production"}

\* the environments of Spec: any of the four variables the service reads
ServiceEnvironments ==
    { e \in Environments({POD_NAME, POD_NAMESPACE, APP_NAME, ENVIRONMENT},
                         {"unknown", "web-0", "prod", "shop", "production"}, 4) :
        \A n \in DOMAIN e : e[n] \in ServiceValues(n) }

(* ------------------------------- state -------------------------------- *)

VARIABLES
    environ,          \* os.environ
    token_file,       \* whether the service-account token file exists
    phase,            \* "start" -> "logged" -> "serving" | "exited"
    env_vars,         \* the snapshot main() logs
    app_name,         \* WebTest.app_name
    environment,      \* WebTest.environment
    k8s_client,       \* the K8sClient: in_cluster, core_api, running_in_k8s
    init_trace,       \* construction: loader called, outcomes met, flag writes
    req               \* the requests in progress, one record per slot

vars == <<environ, token_file, phase, env_vars, app_name, environment,
          k8s_client, init_trace, req>>

Slots == 1..MaxInFlight

\* an attribute or local that holds nothing yet
None == <<>>

(* --------------------------- k8s_utils.py ----------------------------- *)

\* os.environ.get(name, default)
environ_get(name, default) ==
    IF name \in DOMAIN environ THEN environ[name] ELSE default

\* get_env_var(name, default)
get_env_var(name, default) == environ_get(name, default)

\* the faults credential loading and API-handle creation may raise
InitFaults == {"ConfigException"}

\* the faults a cluster query may raise
QueryFaults == {"ApiException", "MaxRetryError"}

\* str(e) of a fault
str_e(fault) ==
    IF fault = "ApiException" THEN "(404) Reason: Not Found"
    ELSE IF fault = "MaxRetryError" THEN "Max retries exceeded"
    ELSE fault

\* K8sClient._is_in_cluster: os.path.exists(<token file>)
is_in_cluster(exists) == exists

\* mutant: the try block ends after the credential load, so a fault of
\* client.CoreV1Api() escapes the constructor
initialize_client_uncaught(self, load, api) ==
    LET loader == IF self.in_cluster THEN "load_incluster_config"
                                      ELSE "load_kube_config"
    IN  IF load # "none"
        THEN [ self   |-> [self EXCEPT !.running_in_k8s = FALSE],
               raised |-> "none", loader |-> loader, flag_writes |-> 1 ]
        ELSE IF api # "none"
        THEN [ self |-> self, raised |-> api, loader |-> loader, flag_writes |-> 0 ]
        ELSE [ self   |-> [self EXCEPT !.core_api = "CoreV1Api",
                                       !.running_in_k8s = TRUE],
               raised |-> "none", loader |-> loader, flag_writes |-> 1 ]

\* K8sClient._initialize_client, given the outcome ("none" or a fault) of the
\* credential load and of client.CoreV1Api().  self: the client afterwards;
\* raised: the fault that escapes; loader: the credential loader called;
\* flag_writes: how many times running_in_k8s was assigned.
initialize_client(self, load, api) ==
    LET loader == IF self.in_cluster THEN "load_incluster_config"
                                      ELSE "load_kube_config"
    IN  IF load # "none" \/ api # "none"
        THEN [ self   |-> [self EXCEPT !.running_in_k8s = FALSE],
               raised |-> "none", loader |-> loader, flag_writes |-> 1 ]
        ELSE [ self   |-> [self EXCEPT !.core_api = "CoreV1Api",
                                       !.running_in_k8s = TRUE],
               raised |-> "none", loader |-> loader, flag_writes |-> 1 ]

\* K8sClient.__init__
K8sClient__init__(exists, load, api) ==
    initialize_client([ in_cluster     |-> is_in_cluster(exists),
                        core_api       |-> "unset",
                        running_in_k8s |-> FALSE ], load, api)

Digits == <<"0","1","2","3","4","5","6","7","8","9">>

\* n as w decimal digits, zero padded
Pad(n, w) == [i \in 1..w |-> Digits[((n \div (10 ^ (w - i))) % 10) + 1]]

\* ts.strftime("%Y-%m-%d %H:%M:%S"), ts = <<year, month, day, hour, min, sec>>
strftime(ts) ==
    Pad(ts[1], 4) \o <<"-">> \o Pad(ts[2], 2) \o <<"-">> \o Pad(ts[3], 2) \o <<" ">>
    \o Pad(ts[4], 2) \o <<":">> \o Pad(ts[5], 2) \o <<":">> \o Pad(ts[6], 2)

\* what core_api.read_namespaced_pod may do: raise `fault`, or return a pod
\* with these fields (its name and namespace are the ones asked for)
PodLookups ==
    { [fault |-> f, node_name |-> "node-1", pod_ip |-> "10.0.0.7",
       creation_timestamp |-> ts] :
        f \in {"none"} \cup QueryFaults, ts \in {<<2024, 3, 9, 7, 5, 0>>} }
    \cup
    { [fault |-> "none", node_name |-> "node-1", pod_ip |-> "10.0.0.7",
       creation_timestamp |-> None] }

\* what client.VersionApi().get_code() may do
VersionQueries ==
    { [fault |-> f, git_version |-> "v1.29.1", platform |-> "linux/amd64",
       go_version |-> "go1.21.6"] : f \in {"none"} \cup QueryFaults }

\* mutant: the pod name is not compared with "unknown"; the lookup is always made
get_pod_info_always_lookup(self, lookup) ==
    IF ~self.running_in_k8s
    THEN [ret |-> [error |-> "Not running in Kubernetes"], calls |-> <<>>,
          raised |-> "none", self |-> self]
    ELSE LET namespace == environ_get(POD_NAMESPACE, "default")
             pod_name  == environ_get(POD_NAME, "unknown")
         IN  IF lookup.fault # "none"
             THEN [ret |-> [error |-> str_e(lookup.fault)],
                   calls |-> << [api |-> "read_namespaced_pod",
                                 fault |-> lookup.fault] >>,
                   raised |-> "none", self |-> self]
             ELSE [ret |-> [ pod_name  |-> pod_name,
                             namespace |-> namespace,
                             node      |-> lookup.node_name,
                             pod_ip    |-> lookup.pod_ip,
                             created   |-> None ],
                   calls |-> << [api |-> "read_namespaced_pod", fault |-> "none"] >>,
                   raised |-> "none", self |-> self]

\* K8sClient.get_pod_info, given what the pod lookup does if it is made.
\* ret: the value returned; calls: the cluster calls made, each with its fault;
\* raised: the fault that escapes; self: the client afterwards.
get_pod_info(self, lookup) ==
    IF ~self.running_in_k8s
    THEN [ret |-> [error |-> "Not running in Kubernetes"], calls |-> <<>>,
          raised |-> "none", self |-> self]
    ELSE LET namespace == environ_get(POD_NAMESPACE, "default")
             pod_name  == environ_get(POD_NAME, "unknown")
         IN  IF pod_name # "unknown"
             THEN IF self.core_api = "unset"
                  THEN [ret |-> [error |-> str_e("AttributeError")], calls |-> <<>>,
                        raised |-> "none", self |-> self]
                  ELSE IF lookup.fault # "none"
                  THEN [ret |-> [error |-> str_e(lookup.fault)],
                        calls |-> << [api |-> "read_namespaced_pod",
                                      fault |-> lookup.fault] >>,
                        raised |-> "none", self |-> self]
                  ELSE [ret |-> [ pod_name  |-> pod_name,
                                  namespace |-> namespace,
                                  node      |-> lookup.node_name,
                                  pod_ip    |-> lookup.pod_ip,
                                  created   |->
                                      IF lookup.creation_timestamp # None
                                      THEN strftime(lookup.creation_timestamp)
                                      ELSE None ],
                        calls |-> << [api |-> "read_namespaced_pod",
                                      fault |-> "none"] >>,
                        raised |-> "none", self |-> self]
             ELSE [ret |-> [ pod_name  |-> pod_name,
                             namespace |-> namespace,
                             status    |-> "Limited information available" ],
                   calls |-> <<>>, raised |-> "none", self |-> self]

\* the value get_cluster_info returns when the version query succeeds
ClusterInfo(version) ==
    [ kubernetes_version |-> version.git_version,
      platform           |-> version.platform,
      go_version         |-> version.go_version ]

\* mutant: a failed version query disables the client
get_cluster_info_disabling(self, version) ==
    IF ~self.running_in_k8s
    THEN [ret |-> [error |-> "Not running in Kubernetes"], calls |-> <<>>,
          raised |-> "none", self |-> self]
    ELSE IF version.fault # "none"
    THEN [ret |-> [error |-> str_e(version.fault)],
          calls |-> << [api |-> "get_code", fault |-> version.fault] >>,
          raised |-> "none", self |-> [self EXCEPT !.running_in_k8s = FALSE]]
    ELSE [ret |-> ClusterInfo(version),
          calls |-> << [api |-> "get_code", fault |-> "none"] >>,
          raised |-> "none", self |-> self]

\* mutant: the enabled flag is not checked before the version query
get_cluster_info_unguarded(self, version) ==
    IF version.fault # "none"
    THEN [ret |-> [error |-> str_e(version.fault)],
          calls |-> << [api |-> "get_code", fault |-> version.fault] >>,
          raised |-> "none", self |-> self]
    ELSE [ret |-> ClusterInfo(version),
          calls |-> << [api |-> "get_code", fault |-> "none"] >>,
          raised |-> "none", self |-> self]

\* mutant: the version query is made outside the try block
get_cluster_info_raising(self, version) ==
    IF ~self.running_in_k8s
    THEN [ret |-> [error |-> "Not running in Kubernetes"], calls |-> <<>>,
          raised |-> "none", self |-> self]
    ELSE IF version.fault # "none"
    THEN [ret |-> None,
          calls |-> << [api |-> "get_code", fault |-> version.fault] >>,
          raised |-> version.fault, self |-> self]
    ELSE [ret |-> ClusterInfo(version),
          calls |-> << [api |-> "get_code", fault |-> "none"] >>,
          raised |-> "none", self |-> self]

\* mutant: a failed version query is tried once more
get_cluster_info_retrying(self, version) ==
    IF ~self.running_in_k8s
    THEN [ret |-> [error |-> "Not running in Kubernetes"], calls |-> <<>>,
          raised |-> "none", self |-> self]
    ELSE IF version.fault # "none"
    THEN [ret |-> [error |-> str_e(version.fault)],
          calls |-> << [api |-> "get_code", fault |-> version.fault],
                       [api |-> "get_code", fault |-> version.fault] >>,
          raised |-> "none", self |-> self]
    ELSE [ret |-> ClusterInfo(version),
          calls |-> << [api |-> "get_code", fault |-> "none"] >>,
          raised |-> "none", self |-> self]

\* K8sClient.get_cluster_info, given what the version query does if it is made
get_cluster_info(self, version) ==
    IF ~self.running_in_k8s
    THEN [ret |-> [error |-> "Not running in Kubernetes"], calls |-> <<>>,
          raised |-> "none", self |-> self]
    ELSE IF version.fault # "none"
    THEN [ret |-> [error |-> str_e(version.fault)],
          calls |-> << [api |-> "get_code", fault |-> version.fault] >>,
          raised |-> "none", self |-> self]
    ELSE [ret |-> ClusterInfo(version),
          calls |-> << [api |-> "get_code", fault |-> "none"] >>,
          raised |-> "none", self |-> self]

(* ----------------------------- webtest.py ----------------------------- *)

\* the WebTest object the handlers receive as `self`
WebTestSelf ==
    [app_name |-> app_name, environment |-> environment, k8s_client |-> k8s_client]

\* what a handler produces: the content type it sets, the value it returns,
\* the cluster calls it made and the fault that escaped it ("none" if none)
Handled(content_type, ret) ==
    [content_type |-> content_type, ret |-> ret, calls |-> <<>>, raised |-> "none"]

\* WebTest.index: the page is determined by the two values it interpolates
index(self) ==
    Handled("text/html",
            [ title       |-> self.app_name,
              heading     |-> self.app_name,
              environment |-> self.environment,
              endpoints   |-> << "/", "/api/status", "/api/info", "/api/kubernetes",
                                 "/healthz", "/readyz" >> ])

\* WebTest.status
status(self) ==
    Handled("application/json",
            [ status      |-> "running",
              service     |-> self.app_name,
              environment |-> self.environment ])

\* mutant: the key is compared without lower()
info_env_variables_case_sensitive ==
    [ key \in { k \in DOMAIN environ : ~(k \in InfoExcluded) } |-> environ[key] ]

\* the env_variables comprehension of WebTest.info
info_env_variables ==
    [ key \in { k \in DOMAIN environ : ~(lower(k) \in InfoExcluded) } |-> environ[key] ]

\* WebTest.info
info(self) ==
    Handled("application/json",
            [ python_version |-> "sys.version",
              platform       |-> "platform.platform()",
              implementation |-> "platform.python_implementation()",
              bottle_version |-> "bottle.__version__",
              app_name       |-> self.app_name,
              environment    |-> self.environment,
              env_variables  |-> info_env_variables ])

\* mutant: liveness is coupled to the cluster client
health_check_coupled(self) ==
    Handled("application/json",
            [status |-> IF self.k8s_client.running_in_k8s THEN "healthy"
                                                           ELSE "unhealthy"])

\* WebTest.health_check
health_check(self) == Handled("application/json", [status |-> "healthy"])

\* WebTest.readiness_check
readiness_check(self) == Handled("application/json", [status |-> "ready"])

\* WebTest.kubernetes_info: the dictionary it starts from
kubernetes_info_result(self) ==
    [running_in_kubernetes |-> self.k8s_client.running_in_k8s]

\* mutant: the client is asked whatever the flag says
kubernetes_info_asks_always(self) == TRUE

\* WebTest.kubernetes_info: whether it goes on to ask the client
kubernetes_info_asks(self) == self.k8s_client.running_in_k8s

\* WebTest.kubernetes_info: result.update({...})
kubernetes_info_update(result, pod_info, cluster_info) ==
    [ running_in_kubernetes |-> result.running_in_kubernetes,
      pod_info              |-> pod_info,
      cluster_info          |-> cluster_info ]

(* ------------------------------ main.py ------------------------------- *)

\* main: the environment snapshot it logs
main_env_vars ==
    [ key \in { k \in DOMAIN environ :
                  ~(\E sensitive \in LogSensitive : Contains(sensitive, lower(k))) }
        |-> environ[key] ]

(* ------------------------------ requests ------------------------------ *)

\* a free slot
Idle ==
    [ op |-> "idle", pc |-> "idle", status |-> 0, content_type |-> "",
      ret |-> None, pod_info |-> None, calls |-> <<>>, invoked |-> <<>>,
      raised |-> "none" ]

\* Bottle's handling of a callback: its return value is the body of a 200
\* response; a fault that escapes it becomes a 500 response
Served(route, h) ==
    [ op |-> route, pc |-> "done",
      status |-> IF h.raised = "none" THEN 200 ELSE 500,
      content_type |-> h.content_type,
      ret |-> IF h.raised = "none" THEN h.ret ELSE [error |-> "Internal Server Error"],
      pod_info |-> None, calls |-> h.calls, invoked |-> <<>>, raised |-> h.raised ]

Serving(r) == phase = "serving" /\ req[r].pc = "idle"

Frame == UNCHANGED <<environ, token_file, phase, env_vars, app_name, environment,
                     k8s_client, init_trace>>

(* ------------------------------ actions ------------------------------- *)

\* main(), up to the construction of the WebTest
Main ==
    /\ phase = "start"
    /\ env_vars' = main_env_vars
    /\ phase' = "logged"
    /\ UNCHANGED <<environ, token_file, app_name, environment, k8s_client,
                   init_trace, req>>

\* WebTest.__init__, called by main(); a fault escaping it ends the process
WebTest__init__ ==
    /\ phase = "logged"
    /\ \E load \in {"none"} \cup InitFaults, api \in {"none"} \cup InitFaults :
         LET made == K8sClient__init__(token_file, load, api)
         IN  /\ app_name' = get_env_var(APP_NAME, "webtest")
             /\ environment' = get_env_var(ENVIRONMENT, "development")
             /\ init_trace' = [ loader |-> made.loader, load |-> load, api |-> api,
                                flag_writes |-> made.flag_writes ]
             /\ IF made.raised = "none"
                THEN k8s_client' = made.self /\ phase' = "serving"
                ELSE k8s_client' = k8s_client /\ phase' = "exited"
    /\ UNCHANGED <<environ, token_file, env_vars, req>>

\* GET /
ServeIndex(r) ==
    /\ Serving(r)
    /\ req' = [req EXCEPT ![r] = Served("/", index(WebTestSelf))]
    /\ Frame

\* GET /api/status
ServeStatus(r) ==
    /\ Serving(r)
    /\ req' = [req EXCEPT ![r] = Served("/api/status", status(WebTestSelf))]
    /\ Frame

\* GET /api/info
ServeInfo(r) ==
    /\ Serving(r)
    /\ req' = [req EXCEPT ![r] = Served("/api/info", info(WebTestSelf))]
    /\ Frame

\* GET /healthz
ServeHealthz(r) ==
    /\ Serving(r)
    /\ req' = [req EXCEPT ![r] = Served("/healthz", health_check(WebTestSelf))]
    /\ Frame

\* GET /readyz
ServeReadyz(r) ==
    /\ Serving(r)
    /\ req' = [req EXCEPT ![r] = Served("/readyz", readiness_check(WebTestSelf))]
    /\ Frame

\* GET /api/kubernetes, up to its first call into the client (or to its
\* return, when it makes none)
KubernetesInfoBegin(r) ==
    /\ Serving(r)
    /\ LET result == kubernetes_info_result(WebTestSelf)
       IN  req' = [req EXCEPT ![r] =
                IF kubernetes_info_asks(WebTestSelf)
                THEN [Idle EXCEPT !.op = "/api/kubernetes", !.pc = "get_pod_info",
                                  !.content_type = "application/json",
                                  !.ret = result]
                ELSE Served("/api/kubernetes", Handled("application/json", result))]
    /\ Frame

\* GET /api/kubernetes: self.k8s_client.get_pod_info()
KubernetesInfoPod(r) ==
    /\ phase = "serving"
    /\ req[r].op = "/api/kubernetes" /\ req[r].pc = "get_pod_info"
    /\ \E lookup \in PodLookups :
         LET out == get_pod_info(k8s_client, lookup)
         IN  /\ k8s_client' = out.self
             /\ req' = [req EXCEPT ![r] =
                   IF out.raised = "none"
                   THEN [@ EXCEPT !.pc = "get_cluster_info", !.pod_info = out.ret,
                                  !.calls = @ \o out.calls,
                                  !.invoked = Append(@, "get_pod_info")]
                   ELSE [Served("/api/kubernetes",
                                [content_type |-> "application/json", ret |-> None,
                                 calls |-> req[r].calls \o out.calls,
                                 raised |-> out.raised])
                           EXCEPT !.invoked = Append(req[r].invoked, "get_pod_info")]]
    /\ UNCHANGED <<environ, token_file, phase, env_vars, app_name, environment,
                   init_trace>>

\* GET /api/kubernetes: self.k8s_client.get_cluster_info(), the update of the
\* result and the return
KubernetesInfoCluster(r) ==
    /\ phase = "serving"
    /\ req[r].op = "/api/kubernetes" /\ req[r].pc = "get_cluster_info"
    /\ \E version \in VersionQueries :
         LET out == get_cluster_info(k8s_client, version)
         IN  /\ k8s_client' = out.self
             /\ req' = [req EXCEPT ![r] =
                   [Served("/api/kubernetes",
                           [content_type |-> "application/json",
                            ret |-> kubernetes_info_update(req[r].ret, req[r].pod_info,
                                                           out.ret),
                            calls |-> req[r].calls \o out.calls,
                            raised |-> out.raised])
                      EXCEPT !.invoked = Append(req[r].invoked, "get_cluster_info"),
                             !.pod_info = req[r].pod_info]]
    /\ UNCHANGED <<environ, token_file, phase, env_vars, app_name, environment,
                   init_trace>>

\* a direct call of k8s_client.get_pod_info()
CallGetPodInfo(r) ==
    /\ Serving(r)
    /\ \E lookup \in PodLookups :
         LET out == get_pod_info(k8s_client, lookup)
         IN  /\ k8s_client' = out.self
             /\ req' = [req EXCEPT ![r] =
                   [Idle EXCEPT !.op = "get_pod_info", !.pc = "done",
                                !.ret = IF out.raised = "none" THEN out.ret ELSE None,
                                !.calls = out.calls, !.invoked = <<"get_pod_info">>,
                                !.raised = out.raised]]
    /\ UNCHANGED <<environ, token_file, phase, env_vars, app_name, environment,
                   init_trace>>

\* a direct call of k8s_client.get_cluster_info()
CallGetClusterInfo(r) ==
    /\ Serving(r)
    /\ \E version \in VersionQueries :
         LET out == get_cluster_info(k8s_client, version)
         IN  /\ k8s_client' = out.self
             /\ req' = [req EXCEPT ![r] =
                   [Idle EXCEPT !.op = "get_cluster_info", !.pc = "done",
                                !.ret = IF out.raised = "none" THEN out.ret ELSE None,
                                !.calls = out.calls, !.invoked = <<"get_cluster_info">>,
                                !.raised = out.raised]]
    /\ UNCHANGED <<environ, token_file, phase, env_vars, app_name, environment,
                   init_trace>>

\* the response (or the returned value) is handed over; the slot is free again
Complete(r) ==
    /\ req[r].pc = "done"
    /\ req' = [req EXCEPT ![r] = Idle]
    /\ Frame

(* --------------------------- specifications --------------------------- *)

NoClient == [in_cluster |-> FALSE, core_api |-> "unset", running_in_k8s |-> FALSE]

NoTrace == [loader |-> "none", load |-> "none", api |-> "none", flag_writes |-> 0]

InitWith(environments) ==
    /\ environ \in environments
    /\ token_file \in BOOLEAN
    /\ phase = "start"
    /\ env_vars = None
    /\ app_name = ""
    /\ environment = ""
    /\ k8s_client = NoClient
    /\ init_trace = NoTrace
    /\ req = [r \in Slots |-> Idle]

\* the service with the variables it reads itself set or unset
Init == InitWith(ServiceEnvironments)

Next ==
    \/ Main
    \/ WebTest__init__
    \/ \E r \in Slots : ServeIndex(r)
    \/ \E r \in Slots : ServeStatus(r)
    \/ \E r \in Slots : ServeInfo(r)
    \/ \E r \in Slots : ServeHealthz(r)
    \/ \E r \in Slots : ServeReadyz(r)
    \/ \E r \in Slots : KubernetesInfoBegin(r)
    \/ \E r \in Slots : KubernetesInfoPod(r)
    \/ \E r \in Slots : KubernetesInfoCluster(r)
    \/ \E r \in Slots : CallGetPodInfo(r)
    \/ \E r \in Slots : CallGetClusterInfo(r)
    \/ \E r \in Slots : Complete(r)

Spec == Init /\ [][Next]_vars

\* the service in environments of arbitrary, sensitive-looking variables:
\* startup and the requests that report the environment
InitEnv == InitWith(Environments(EnvNames, EnvValues, MaxEnvVars))

NextEnv ==
    \/ Main
    \/ WebTest__init__
    \/ \E r \in Slots : ServeInfo(r)
    \/ \E r \in Slots : ServeStatus(r)
    \/ \E r \in Slots : Complete(r)

SpecEnv == InitEnv /\ [][NextEnv]_vars

(* ------------------------------- claims ------------------------------- *)

Enabled == k8s_client.running_in_k8s

Finished(r, op) == req[r].pc = "done" /\ req[r].op = op

\* the calls of one API among the cluster calls a request made
CallsOf(r, api) == { i \in DOMAIN req[r].calls : req[r].calls[i].api = api }

\* C1: whatever the state of the cluster client and whatever was served
\* before, /healthz answers 200 with exactly {status: "healthy"} and /readyz
\* answers 200 with exactly {status: "ready"}, and neither makes a cluster call.
C1_ProbesUnconditional ==
    \A r \in Slots :
        /\ Finished(r, "/healthz") =>
              /\ req[r].status = 200
              /\ req[r].ret = [status |-> "healthy"]
              /\ req[r].calls = <<>> /\ req[r].invoked = <<>>
        /\ Finished(r, "/readyz") =>
              /\ req[r].status = 200
              /\ req[r].ret = [status |-> "ready"]
              /\ req[r].calls = <<>> /\ req[r].invoked = <<>>

\* both probes answered while the client is Disabled after a failed credential load
C1_Witness ==
    /\ phase = "serving" /\ ~Enabled /\ init_trace.load # "none"
    /\ \E r1, r2 \in Slots : Finished(r1, "/healthz") /\ Finished(r2, "/readyz")

\* C2: construction never raises; on either credential path the client is
\* Enabled exactly when the credential load and the creation of the API
\* handle both succeeded, and an Enabled client has its core_api set.
C2_ConstructionDegrades ==
    /\ phase # "exited"
    /\ phase = "serving" =>
          /\ init_trace.loader = IF token_file THEN "load_incluster_config"
                                               ELSE "load_kube_config"
          /\ Enabled <=> (init_trace.load = "none" /\ init_trace.api = "none")
          /\ Enabled => k8s_client.core_api = "CoreV1Api"

\* in-cluster credentials loaded, the API handle could not be created: Disabled
C2_Witness ==
    /\ phase = "serving" /\ token_file
    /\ init_trace.load = "none" /\ init_trace.api # "none"
    /\ ~Enabled

\* C3: running_in_k8s is assigned once, during construction; once the service
\* is constructed no step of any request or client call, in any interleaving,
\* changes the client, app_name or environment.
C3_FlagFrozen ==
    /\ [](phase = "serving" => init_trace.flag_writes = 1)
    /\ [][phase = "serving" =>
            /\ k8s_client' = k8s_client
            /\ app_name' = app_name
            /\ environment' = environment
            /\ init_trace' = init_trace]_vars

\* an Enabled client whose version query has just failed inside /api/kubernetes
\* while another call is in progress
C3_Witness ==
    /\ Enabled
    /\ \E r1, r2 \in Slots :
          /\ r1 # r2
          /\ Finished(r1, "/api/kubernetes")
          /\ \E i \in CallsOf(r1, "get_code") : req[r1].calls[i].fault # "none"
          /\ req[r2].pc # "idle"

\* C4: on a Disabled client get_pod_info and get_cluster_info return
\* {error: "Not running in Kubernetes"} and make no cluster call, whatever
\* POD_NAME and POD_NAMESPACE are.
C4_DisabledShortCircuits ==
    \A r \in Slots :
        (~Enabled /\ (Finished(r, "get_pod_info") \/ Finished(r, "get_cluster_info"))) =>
            /\ req[r].raised = "none"
            /\ req[r].ret = [error |-> "Not running in Kubernetes"]
            /\ req[r].calls = <<>>

\* both operations called on a Disabled client while POD_NAME names a pod
C4_Witness ==
    /\ phase = "serving" /\ ~Enabled
    /\ POD_NAME \in DOMAIN environ /\ environ[POD_NAME] = "web-0"
    /\ \E r1, r2 \in Slots :
          Finished(r1, "get_pod_info") /\ Finished(r2, "get_cluster_info")

\* C5: the /api/kubernetes response has pod_info and cluster_info exactly when
\* its running_in_kubernetes is true: Disabled gives exactly
\* {running_in_kubernetes: false} with no client call; Enabled gives true with
\* pod_info, what get_pod_info returned, and cluster_info, a result of
\* get_cluster_info.
C5_KubernetesResponse ==
    \A r \in Slots : Finished(r, "/api/kubernetes") =>
        /\ req[r].status = 200
        /\ req[r].ret.running_in_kubernetes = Enabled
        /\ "pod_info" \in DOMAIN req[r].ret <=> req[r].ret.running_in_kubernetes
        /\ "cluster_info" \in DOMAIN req[r].ret <=> req[r].ret.running_in_kubernetes
        /\ ~Enabled =>
              /\ req[r].ret = [running_in_kubernetes |-> FALSE]
              /\ req[r].invoked = <<>> /\ req[r].calls = <<>>
        /\ Enabled =>
              /\ DOMAIN req[r].ret = {"running_in_kubernetes", "pod_info", "cluster_info"}
              /\ req[r].invoked = <<"get_pod_info", "get_cluster_info">>
              /\ req[r].ret.pod_info = req[r].pod_info
              /\ \E v \in VersionQueries :
                    LET made == get_cluster_info(k8s_client, v)
                    IN  made.calls = SubSeq(req[r].calls, Len(req[r].calls),
                                            Len(req[r].calls))
                        /\ made.ret = req[r].ret.cluster_info

\* an Enabled client, a pod found and the version obtained
C5_Witness ==
    /\ Enabled
    /\ \E r \in Slots :
          /\ Finished(r, "/api/kubernetes")
          /\ "node" \in DOMAIN req[r].ret.pod_info
          /\ "platform" \in DOMAIN req[r].ret.cluster_info

\* the pod information a slot holds: what a direct get_pod_info call returned,
\* or what /api/kubernetes got from get_pod_info
HasPodInfo(r) ==
    \/ Finished(r, "get_pod_info")
    \/ req[r].op = "/api/kubernetes" /\ req[r].pc = "get_cluster_info"
    \/ Finished(r, "/api/kubernetes") /\ req[r].invoked # <<>>

PodInfoOf(r) == IF req[r].op = "get_pod_info" THEN req[r].ret ELSE req[r].pod_info

\* C6: on an Enabled client with POD_NAME unset or "unknown", get_pod_info
\* returns exactly {pod_name: "unknown", namespace: POD_NAMESPACE or
\* "default", status: "Limited information available"} without a pod lookup;
\* a pod lookup is made only when POD_NAME differs from "unknown".
C6_UnknownPodNoLookup ==
    \A r \in Slots : (Enabled /\ HasPodInfo(r)) =>
        /\ (POD_NAME \notin DOMAIN environ \/ environ[POD_NAME] = "unknown") =>
              /\ PodInfoOf(r) =
                    [ pod_name  |-> "unknown",
                      namespace |-> IF POD_NAMESPACE \in DOMAIN environ
                                    THEN environ[POD_NAMESPACE] ELSE "default",
                      status    |-> "Limited information available" ]
              /\ CallsOf(r, "read_namespaced_pod") = {}
        /\ CallsOf(r, "read_namespaced_pod") # {} =>
              (POD_NAME \in DOMAIN environ /\ environ[POD_NAME] # "unknown")

\* get_pod_info has returned on an Enabled client with POD_NAME set to
\* "unknown" and POD_NAMESPACE set
C6_Witness ==
    /\ Enabled
    /\ POD_NAME \in DOMAIN environ /\ environ[POD_NAME] = "unknown"
    /\ POD_NAMESPACE \in DOMAIN environ
    /\ \E r \in Slots : Finished(r, "get_pod_info")

\* C7: on an Enabled client a fault of the pod lookup or of the version query
\* is returned as {error: message} and never escapes: /api/kubernetes answers
\* 200 with running_in_kubernetes true, pod_info and cluster_info, each its
\* data or an error payload, and the version query is made even after a
\* failed pod lookup.
C7_QueryFaultsCaught ==
    \A r \in Slots :
        /\ req[r].raised = "none"
        /\ (Finished(r, "get_pod_info") \/ Finished(r, "get_cluster_info")) =>
              \A i \in DOMAIN req[r].calls :
                  req[r].calls[i].fault # "none" =>
                      req[r].ret = [error |-> str_e(req[r].calls[i].fault)]
        /\ (Enabled /\ Finished(r, "/api/kubernetes")) =>
              /\ req[r].status = 200
              /\ req[r].ret.running_in_kubernetes
              /\ {"pod_info", "cluster_info"} \subseteq DOMAIN req[r].ret
              /\ CallsOf(r, "get_code") # {}
              /\ \A i \in DOMAIN req[r].calls :
                    req[r].calls[i].fault # "none" =>
                        IF req[r].calls[i].api = "read_namespaced_pod"
                        THEN req[r].ret.pod_info =
                                 [error |-> str_e(req[r].calls[i].fault)]
                        ELSE req[r].ret.cluster_info =
                                 [error |-> str_e(req[r].calls[i].fault)]
              /\ \A i \in CallsOf(r, "get_code") :
                    req[r].calls[i].fault = "none" =>
                        DOMAIN req[r].ret.cluster_info =
                            {"kubernetes_version", "platform", "go_version"}

\* /api/kubernetes has answered although both the pod lookup and the version
\* query failed
C7_Witness ==
    \E r \in Slots :
        /\ Finished(r, "/api/kubernetes")
        /\ Len(req[r].calls) = 2
        /\ req[r].calls[1].fault # "none" /\ req[r].calls[2].fault # "none"

\* C8 (as claimed): a variable whose name contains a sensitive word without
\* being equal to it is absent from env_variables of the /api/info response.
C8_SubstringNamesAbsent ==
    \A r \in Slots : Finished(r, "/api/info") =>
        \A k \in DOMAIN req[r].ret.env_variables :
            ~(\E w \in InfoExcluded : Contains(w, lower(k)) /\ lower(k) # w)

\* the six names of the claim, lower-cased
C9_Names ==
    { <<"p","a","t","h">>, <<"s","e","c","r","e","t">>, <<"t","o","k","e","n">>,
      <<"p","a","s","s","w","o","r","d">>, <<"k","e","y">>, <<"c","e","r","t">> }

\* C9: env_variables of the /api/info response holds exactly the environment
\* variables whose lower-cased name is none of path, secret, token, password,
\* key, cert, each with its value.
C9_ExactNamesFiltered ==
    \A r \in Slots : Finished(r, "/api/info") =>
        LET shown == req[r].ret.env_variables
        IN  /\ DOMAIN shown \subseteq DOMAIN environ
            /\ \A k \in DOMAIN environ :
                  k \in DOMAIN shown <=> ~(\E w \in C9_Names : lower(k) = w)
            /\ \A k \in DOMAIN shown : shown[k] = environ[k]

\* /api/info answered with PATH dropped and MY_SECRET_X shown
C9_Witness ==
    /\ <<"P","A","T","H">> \in DOMAIN environ
    /\ \E r \in Slots :
          /\ Finished(r, "/api/info")
          /\ DOMAIN req[r].ret.env_variables =
                 { <<"M","Y","_","S","E","C","R","E","T","_","X">> }

\* C10 (as claimed): no request makes more than one cluster call.
C10_AtMostOneCall == \A r \in Slots : Len(req[r].calls) <= 1

\* C10 (amended): a request makes at most one pod lookup and at most one
\* version query, so at most two cluster calls, and only /api/kubernetes makes
\* two; the other five routes make none; a failed call is not repeated.
C10_AtMostOneCallOfEach ==
    \A r \in Slots :
        /\ Cardinality(CallsOf(r, "read_namespaced_pod")) <= 1
        /\ Cardinality(CallsOf(r, "get_code")) <= 1
        /\ Len(req[r].calls) <= 2
        /\ Len(req[r].calls) = 2 => req[r].op = "/api/kubernetes"
        /\ req[r].op \in {"/", "/api/status", "/api/info", "/healthz", "/readyz"} =>
              req[r].calls = <<>>

\* /api/kubernetes has answered after a failed pod lookup and a failed version query,
\* each made once
C10_Witness ==
    \E r \in Slots :
        /\ Finished(r, "/api/kubernetes")
        /\ Len(req[r].calls) = 2
        /\ req[r].calls[1] = [api |-> "read_namespaced_pod", fault |-> "ApiException"]
        /\ req[r].calls[2] = [api |-> "get_code", fault |-> "MaxRetryError"]

====
